---- MODULE Spec2Model ----
(***************************************************************************)
(* Model of load_licking_data                                              *)
(* (src/tracking/tongue/data_wrangling/licking_data_parser.py).            *)
(*                                                                         *)
(* Text (file names, CSV lines, CSV fields) is a sequence of one-character *)
(* strings, so that splitting, trimming and number parsing are computed    *)
(* character by character as Python computes them.                         *)
(***************************************************************************)
EXTENDS Integers, Sequences, FiniteSets, TLC

(***************************************************************************)
(* Bounds of the model.                                                    *)
(***************************************************************************)
\* number of experiment subfolders that may exist under the root
MaxExp == 2
\* number of directory entries of images folders and of data lines of CSV
\* files read over the whole run
MaxReads == 3
\* number of rows of the table in the specification of the reader alone
MaxTableRows == 2
\* number of image names in the listing in the specification of the indexer
\* alone
MaxListing == 3
\* number of frames in the specification of the two runs that differ in
\* original_resolution
MaxHintFrames == 2
\* number of data rows of the CSV file given to
\* replace_frame_numbers_with_image_names
MaxReplaceRows == 2

(***************************************************************************)
(* Characters and Python's string primitives.                              *)
(***************************************************************************)
DigitChars == <<"0", "1", "2", "3", "4", "5", "6", "7", "8", "9">>

UpperChars == <<"A", "B", "C", "D", "E", "F", "G", "H", "I", "J", "K", "L", "M",
                "N", "O", "P", "Q", "R", "S", "T", "U", "V", "W", "X", "Y", "Z">>

LowerChars == <<"a", "b", "c", "d", "e", "f", "g", "h", "i", "j", "k", "l", "m",
                "n", "o", "p", "q", "r", "s", "t", "u", "v", "w", "x", "y", "z">>

TAB == "\t"

\* str.isspace for the characters of the model
IsSpace(c) == c \in {" ", TAB}

IsDigit(c) == \E k \in 1..10 : DigitChars[k] = c

DigitVal(c) == (CHOOSE k \in 1..10 : DigitChars[k] = c) - 1

\* str.lower, one character
LowerChar(c) ==
    IF \E k \in 1..26 : UpperChars[k] = c
    THEN LowerChars[CHOOSE k \in 1..26 : UpperChars[k] = c]
    ELSE c

\* str.lower
Lower(s) == [k \in 1..Len(s) |-> LowerChar(s[k])]

\* c in s
Contains(s, c) == \E k \in 1..Len(s) : s[k] = c

\* s.startswith(p)
StartsWith(s, p) == Len(s) >= Len(p) /\ SubSeq(s, 1, Len(p)) = p

\* s.endswith(p)
EndsWith(s, p) == Len(s) >= Len(p) /\ SubSeq(s, Len(s) - Len(p) + 1, Len(s)) = p

RECURSIVE LStrip(_)
LStrip(s) == IF s /= <<>> /\ IsSpace(Head(s)) THEN LStrip(Tail(s)) ELSE s

RECURSIVE RStrip(_)
RStrip(s) ==
    IF s /= <<>> /\ IsSpace(s[Len(s)]) THEN RStrip(SubSeq(s, 1, Len(s) - 1)) ELSE s

\* str.strip()
Strip(s) == RStrip(LStrip(s))

\* s.split(d): split on every occurrence of the character d; never empty
RECURSIVE SplitOn(_, _)
SplitOn(s, d) ==
    IF ~Contains(s, d) THEN <<s>>
    ELSE LET k == CHOOSE j \in 1..Len(s) :
                      s[j] = d /\ \A m \in 1..(j - 1) : s[m] /= d
         IN  <<SubSeq(s, 1, k - 1)>> \o SplitOn(SubSeq(s, k + 1, Len(s)), d)

\* s.split(): split on runs of white space, dropping empty pieces
RECURSIVE SplitWs(_)
SplitWs(s) ==
    LET t == LStrip(s) IN
    IF t = <<>> THEN <<>>
    ELSE IF \A j \in 1..Len(t) : ~IsSpace(t[j]) THEN <<t>>
    ELSE LET k == CHOOSE j \in 1..Len(t) :
                      IsSpace(t[j]) /\ \A m \in 1..(j - 1) : ~IsSpace(t[m])
         IN  <<SubSeq(t, 1, k - 1)>> \o SplitWs(SubSeq(t, k + 1, Len(t)))

\* value of a non-empty digit string
RECURSIVE DigitsVal(_)
DigitsVal(s) ==
    IF s = <<>> THEN 0
    ELSE 10 * DigitsVal(SubSeq(s, 1, Len(s) - 1)) + DigitVal(s[Len(s)])

AllDigits(s) == s /= <<>> /\ \A k \in 1..Len(s) : IsDigit(s[k])

\* the sign of a numeral and the text after it
SignOf(s) == IF s /= <<>> /\ s[1] = "-" THEN -1 ELSE 1

Unsigned(s) == IF s /= <<>> /\ s[1] \in {"-", "+"} THEN Tail(s) ELSE s

\* int(s): "ok" with the value, or "ValueError"
PyInt(s) ==
    LET t == Strip(s)
        u == Unsigned(t)
    IN  IF AllDigits(u)
        THEN [exc |-> "ok", val |-> SignOf(t) * DigitsVal(u)]
        ELSE [exc |-> "ValueError", val |-> 0]

\* int(float(s)): float() accepts decimal numerals, nan, inf and infinity in
\* any letter case; int() truncates a finite float, raises ValueError on NaN
\* and OverflowError on an infinity
PyIntOfFloat(s) ==
    LET t == Strip(s)
        u == Lower(Unsigned(t))
        parts == SplitOn(u, ".")
    IN  IF u = <<"n", "a", "n">>
        THEN [exc |-> "ValueError", val |-> 0]
        ELSE IF u = <<"i", "n", "f">> \/ u = <<"i", "n", "f", "i", "n", "i", "t", "y">>
        THEN [exc |-> "OverflowError", val |-> 0]
        ELSE IF Len(parts) = 1 /\ AllDigits(parts[1])
        THEN [exc |-> "ok", val |-> SignOf(t) * DigitsVal(parts[1])]
        ELSE IF /\ Len(parts) = 2
                /\ parts[1] \o parts[2] /= <<>>
                /\ \A k \in 1..Len(parts[1]) : IsDigit(parts[1][k])
                /\ \A k \in 1..Len(parts[2]) : IsDigit(parts[2][k])
        THEN [exc |-> "ok", val |-> SignOf(t) * DigitsVal(parts[1])]
        ELSE [exc |-> "ValueError", val |-> 0]

(***************************************************************************)
(* Coordinate table reader (lines 156-225).                                *)
(***************************************************************************)
\* occlusion_markers = ('nan', 'NaN', 'NAN', 'None', ''), the default
occlusion_markers ==
    { <<"n", "a", "n">>, <<"N", "a", "N">>, <<"N", "A", "N">>,
      <<"N", "o", "n", "e">>, <<>> }

\* the separators of the dialect probe
Seps == {",", " ", TAB}

\* the text of fields written with sep between them
RECURSIVE Join(_, _)
Join(fields, sep) ==
    IF fields = <<>> THEN <<>>
    ELSE IF Len(fields) = 1 THEN fields[1]
    ELSE fields[1] \o <<sep>> \o Join(Tail(fields), sep)

\* lines 169-177 with the tests for the space and for the comma exchanged
DetectDelimiterSpaceFirst(first_line, csv_delimiter) ==
    IF Contains(first_line, " ") THEN " "
    ELSE IF Contains(first_line, ",") THEN ","
    ELSE IF Contains(first_line, TAB) THEN TAB
    ELSE csv_delimiter

\* lines 169-177: first_line is already stripped
DetectDelimiter(first_line, csv_delimiter) ==
    IF Contains(first_line, ",") THEN ","
    ELSE IF Contains(first_line, " ") THEN " "
    ELSE IF Contains(first_line, TAB) THEN TAB
    ELSE csv_delimiter

\* csv.reader(file, delimiter): one line (without its terminator) to a row;
\* an empty line is the empty row. Quoting is outside the model's alphabet.
CsvRow(line, delimiter) == IF line = <<>> THEN <<>> ELSE SplitOn(line, delimiter)

\* lines 191-198 left out: a one-field row stays as it is
ResplitNever(row) == row

\* lines 191-198: a one-field row is split again on another separator
Resplit(row) ==
    IF Len(row) /= 1 THEN row
    ELSE IF Contains(row[1], ",") THEN SplitOn(row[1], ",")
    ELSE IF Contains(row[1], " ") THEN SplitWs(row[1])
    ELSE IF Contains(row[1], TAB) THEN SplitOn(row[1], TAB)
    ELSE row

\* lines 210-225: the try block of one row with at least three non-empty fields
ConvertRow(row) ==
    LET fr == PyInt(Strip(row[1]))
        x_str == Strip(row[2])
        y_str == Strip(row[3])
        x == PyIntOfFloat(x_str)
        y == PyIntOfFloat(y_str)
    IN  IF fr.exc = "ValueError"
        THEN [kind |-> "discard", frame |-> 0, xy |-> <<>>, exc |-> "none"]
        ELSE IF x_str \in occlusion_markers \/ y_str \in occlusion_markers
        THEN [kind |-> "occluded", frame |-> fr.val, xy |-> <<>>, exc |-> "none"]
        ELSE IF x.exc = "ValueError"
        THEN [kind |-> "discard", frame |-> 0, xy |-> <<>>, exc |-> "none"]
        ELSE IF x.exc = "OverflowError"
        THEN [kind |-> "raise", frame |-> 0, xy |-> <<>>, exc |-> "OverflowError"]
        ELSE IF y.exc = "ValueError"
        THEN [kind |-> "discard", frame |-> 0, xy |-> <<>>, exc |-> "none"]
        ELSE IF y.exc = "OverflowError"
        THEN [kind |-> "raise", frame |-> 0, xy |-> <<>>, exc |-> "OverflowError"]
        ELSE [kind |-> "coord", frame |-> fr.val, xy |-> <<x.val, y.val>>,
              exc |-> "none"]

\* lines 185-225: the body of the row loop for one line of the file
ProcessRow(line, delimiter) ==
    LET row0 == CsvRow(line, delimiter)
        row == Resplit(row0)
    IN  IF row0 = <<>>
        THEN [kind |-> "discard", frame |-> 0, xy |-> <<>>, exc |-> "none"]
        ELSE IF Len(row) < 3
        THEN [kind |-> "discard", frame |-> 0, xy |-> <<>>, exc |-> "none"]
        ELSE IF Strip(row[1]) = <<>> \/ Strip(row[2]) = <<>> \/ Strip(row[3]) = <<>>
        THEN [kind |-> "discard", frame |-> 0, xy |-> <<>>, exc |-> "none"]
        ELSE ConvertRow(row)

\* d.setdefault(k, v) in the place of d[k] = v: the first record stays
PutIfAbsent(d, k, v) == [j \in DOMAIN d \cup {k} |-> IF j \in DOMAIN d THEN d[j] ELSE v]

\* d[k] = v on a dict held as a function
Put(d, k, v) == [j \in DOMAIN d \cup {k} |-> IF j = k THEN v ELSE d[j]]

EmptyDict == [j \in {} |-> 0]

\* Python's None as a value of jaw_coords (a coordinate is <<x, y>>)
None == <<>>

\* lines 217 and 221: the effect of a row on jaw_coords
StoreRow(coords, res) ==
    IF res.kind = "occluded" THEN Put(coords, res.frame, None)
    ELSE IF res.kind = "coord" THEN Put(coords, res.frame, res.xy)
    ELSE coords

(***************************************************************************)
(* Frame indexer (lines 113-147).                                          *)
(***************************************************************************)
\* image_extensions = ('.png', '.jpg', '.jpeg'), the default
image_extensions ==
    { <<".", "p", "n", "g">>, <<".", "j", "p", "g">>, <<".", "j", "p", "e", "g">> }

\* line 114: the filter of the image listing
HasImageExt(img) == \E ext \in image_extensions : EndsWith(Lower(img), ext)

\* os.path.splitext(img)[0]: the name up to its last dot, when that dot
\* follows a character that is not a dot
SplitExtRoot(img) ==
    LET dots == {k \in 1..Len(img) : img[k] = "."}
        last == CHOOSE k \in dots : \A m \in dots : m <= k
    IN  IF dots = {} \/ \A m \in 1..(last - 1) : img[m] = "."
        THEN img
        ELSE SubSeq(img, 1, last - 1)

\* lines 126-129: png_suffix is img_names[0].endswith('.png')
StripExt(img, png_suffix) ==
    IF png_suffix THEN SubSeq(img, 1, Len(img) - 4) ELSE SplitExtRoot(img)

\* lines 132-135: scene_prefix is img_names_no_ext[0].startswith('scene')
StripScene(name, scene_prefix) ==
    IF scene_prefix THEN SubSeq(name, 6, Len(name)) ELSE name

SceneToken == <<"s", "c", "e", "n", "e">>

PngSuffix == <<".", "p", "n", "g">>

\* A Python dict is a sequence of <<key, value>> pairs in insertion order.
Keys(d) == [j \in 1..Len(d) |-> d[j][1]]

KeySet(d) == {d[j][1] : j \in 1..Len(d)}

Get(d, k) == d[CHOOSE j \in 1..Len(d) : d[j][1] = k][2]

\* d[k] = v: a new key goes last, a key already there keeps its place
DictSet(d, k, v) ==
    IF k \in KeySet(d)
    THEN [j \in 1..Len(d) |-> IF d[j][1] = k THEN <<k, v>> ELSE d[j]]
    ELSE Append(d, <<k, v>>)

\* sorted(keys): ascending
RECURSIVE SortedSeq(_)
SortedSeq(S) ==
    IF S = {} THEN <<>>
    ELSE LET m == CHOOSE x \in S : \A y \in S : x <= y
         IN  <<m>> \o SortedSeq(S \ {m})

\* [x for x in seq if x in S]
RECURSIVE Filter(_, _)
Filter(seq, S) ==
    IF seq = <<>> THEN <<>>
    ELSE IF Head(seq) \in S THEN <<Head(seq)>> \o Filter(Tail(seq), S)
    ELSE Filter(Tail(seq), S)

(***************************************************************************)
(* Inputs of the model: what the file system may hold and what the caller  *)
(* may pass.                                                               *)
(***************************************************************************)
\* names of the experiment subfolders; their order as integers is their
\* order as names
ExperimentNames == 1..MaxExp

\* the orders in which os.listdir may return the names of S
RECURSIVE Orders(_)
Orders(S) ==
    IF S = {} THEN {<<>>}
    ELSE UNION {{<<x>> \o t : t \in Orders(S \ {x})} : x \in S}

\* the root holds no subfolder, or all of them, listed in ascending or in
\* descending order of name
Listings ==
    { <<>>, [j \in ExperimentNames |-> j],
      [j \in ExperimentNames |-> MaxExp + 1 - j] }

\* names an images folder may hold
DirNames ==
    { <<"1", ".", "p", "n", "g">>, <<"2", ".", "p", "n", "g">>,
      <<"0", "1", ".", "p", "n", "g">>, <<"x", ".", "p", "n", "g">> }

\* lines a CSV file may hold (without the line terminator): coordinates,
\* occlusion markers, an infinity, a frame index that is no integer, a row
\* written with spaces, a blank line
CsvLines ==
    { <<"1", ",", "5", ",", "7">>,
      <<"2", ",", "5", ",", "7">>,
      <<"1", ",", "n", "a", "n", ",", "7">>,
      <<"2", ",", "5", ",", "N", "o", "n", "e">>,
      <<"1", ",", "i", "n", "f", ",", "7">>,
      <<"x", ",", "5", ",", "7">>,
      <<"2", " ", "5", " ", "7">>,
      <<>> }

\* target_resolution arguments (width, height): width and height differ, so
\* that an array of height x width is told from one of width x height
Resolutions == { <<3, 2>> }

\* shapes (height, width) of the decoded first image
DecodedShapes == { <<4, 6>> }

(***************************************************************************)
(* Arrays are held by their shape, element type and provenance.            *)
(***************************************************************************)
\* line 270: cv2.resize(image, (width, height)) has height rows, width columns
ResizedImage(path, frame_num, dsize) ==
    [src |-> path, frame |-> frame_num, shape |-> <<dsize[2], dsize[1], 3>>]

\* lines 282-286: the mask read from the tongue folder, resized, thresholded
ReadMask(exp, img_name, frame_num, dsize) ==
    [exp |-> exp, stem |-> img_name, frame |-> frame_num, kind |-> "read",
     dtype |-> "bool", shape |-> <<dsize[2], dsize[1]>>]

\* lines 289 and 292: np.zeros(target_resolution, dtype=bool)
EmptyMask(exp, img_name, frame_num, dsize) ==
    [exp |-> exp, stem |-> img_name, frame |-> frame_num, kind |-> "zeros",
     dtype |-> "bool", shape |-> dsize]

\* original_resolution = (480, 640), the default
original_resolution == <<480, 640>>

\* line 238 with the argument in the place of the decoded image's shape
ActualResolutionConfigured(configured, first_img_shape) == configured

\* line 238: (first_img.shape[0], first_img.shape[1]); the argument
\* original_resolution (configured) is not read
ActualResolution(configured, first_img_shape) == first_img_shape

\* image_manip.create_gaussian_mask: a 2-D array at target resolution
GaussianMaskShape(dsize) == <<dsize[2], dsize[1]>>

\* lines 296-301
JawMask(exp, frame_num, jaw_coord, original, dsize) ==
    [exp |-> exp, frame |-> frame_num, kind |-> "gaussian", dtype |-> "uint8",
     shape |-> GaussianMaskShape(dsize), coord |-> jaw_coord,
     scaled_from |-> original]

\* line 304: np.zeros(target_resolution, dtype=np.uint8)
EmptyJawMask(exp, frame_num, dsize) ==
    [exp |-> exp, frame |-> frame_num, kind |-> "zeros", dtype |-> "uint8",
     shape |-> dsize, coord |-> <<>>, scaled_from |-> <<>>]

\* line 295 without the test for None: an occluded row counts as a coordinate
HasJawCoordAnyRow(coords, frame_num) == frame_num \in DOMAIN coords

\* line 295
HasJawCoord(coords, frame_num) ==
    frame_num \in DOMAIN coords /\ coords[frame_num] /= None

\* lines 294-305
JawLabel(exp, frame_num, coords, original, dsize) ==
    IF HasJawCoord(coords, frame_num)
    THEN JawMask(exp, frame_num, coords[frame_num], original, dsize)
    ELSE EmptyJawMask(exp, frame_num, dsize)

\* lines 281-292: tongue_file is what labels/tongue/<img_name>.png is
TongueLabel(exp, img_name, frame_num, tongue_file, dsize) ==
    IF tongue_file = "present"
    THEN ReadMask(exp, img_name, frame_num, dsize)
    ELSE EmptyMask(exp, img_name, frame_num, dsize)

\* line 242 without sorted(): the keys in insertion order
AllFramesUnsorted(to_path) == Keys(to_path)

\* line 242
AllFrames(to_path) == SortedSeq(KeySet(to_path))

\* lines 243-247 with line 247 asking for a coordinate: a frame whose row is
\* occluded is dropped like a frame without a row
ValidFramesDropsOccluded(all_frames, load_all, coords) ==
    IF load_all THEN all_frames
    ELSE Filter(all_frames, {f \in DOMAIN coords : coords[f] /= None})

\* lines 243-247
ValidFrames(all_frames, load_all, coords) ==
    IF load_all THEN all_frames ELSE Filter(all_frames, DOMAIN coords)

(***************************************************************************)
(* State.                                                                  *)
(***************************************************************************)
VARIABLES
    target_resolution,          \* argument (width, height)
    load_all_images,            \* argument
    csv_has_header,             \* argument
    csv_delimiter,              \* argument
    pc,                         \* position in load_licking_data
    exc,                        \* the exception that left the function, or "none"
    experiment_folders,         \* line 70
    i,                          \* position of the loop of line 84 (1-based)
    training_images,            \* line 78
    training_image_filenames,   \* line 79
    training_labels,            \* line 80: <<tongue masks, jaw masks>>
    png_suffix,                 \* line 126: img_names[0].endswith('.png')
    scene_prefix,               \* line 132: img_names_no_ext[0].startswith('scene')
    frame_to_path,              \* line 138
    frame_to_name,              \* line 139
    delimiter,                  \* lines 170-177
    jaw_coords,                 \* line 156
    first_frame,                \* line 232
    actual_original_resolution, \* line 238
    valid_frames,               \* lines 243-247
    k,                          \* position of the loop of line 260 (1-based)
    experiment_images,          \* line 256
    experiment_image_filenames, \* line 257
    experiment_labels,          \* line 258: <<tongue masks, jaw masks>>
    log,                        \* what the function printed about each experiment
    nreads,                     \* image names and CSV data lines read so far
    rd,                         \* state of the reader and indexer specifications
    result                      \* what load_licking_data returned

args == <<target_resolution, load_all_images, csv_has_header, csv_delimiter>>

training == <<training_images, training_image_filenames, training_labels>>

index == <<png_suffix, scene_prefix, frame_to_path, frame_to_name>>

table == <<delimiter, jaw_coords>>

selection == <<first_frame, actual_original_resolution, valid_frames, k>>

experiment == <<experiment_images, experiment_image_filenames, experiment_labels>>

vars == <<args, pc, exc, experiment_folders, i, training, index, table,
          selection, experiment, log, nreads, rd, result>>

\* the loop body's locals before the iteration assigns them
LocalsUnset ==
    /\ png_suffix = FALSE
    /\ scene_prefix = FALSE
    /\ frame_to_path = <<>>
    /\ frame_to_name = <<>>
    /\ delimiter = ""
    /\ jaw_coords = EmptyDict
    /\ first_frame = 0
    /\ actual_original_resolution = <<>>
    /\ valid_frames = <<>>
    /\ k = 0
    /\ experiment_images = <<>>
    /\ experiment_image_filenames = <<>>
    /\ experiment_labels = << <<>>, <<>> >>

\* the locals of an iteration that is over are dead: each is assigned again
\* before the next iteration reads it
ResetLocals ==
    /\ png_suffix' = FALSE
    /\ scene_prefix' = FALSE
    /\ frame_to_path' = <<>>
    /\ frame_to_name' = <<>>
    /\ delimiter' = ""
    /\ jaw_coords' = EmptyDict
    /\ first_frame' = 0
    /\ actual_original_resolution' = <<>>
    /\ valid_frames' = <<>>
    /\ k' = 0
    /\ experiment_images' = <<>>
    /\ experiment_image_filenames' = <<>>
    /\ experiment_labels' = << <<>>, <<>> >>

\* the reader specification is not running
RdIdle == [pc |-> "idle"]

\* the function has not returned
NoResult == [kind |-> "none"]

\* the call: the CSV arguments keep their defaults here (the reader
\* specification below varies them)
Init ==
    /\ target_resolution \in Resolutions
    /\ load_all_images \in BOOLEAN
    /\ csv_has_header = TRUE
    /\ csv_delimiter = " "
    /\ pc = "call"
    /\ exc = "none"
    /\ experiment_folders = <<>>
    /\ i = 0
    /\ training_images = <<>>
    /\ training_image_filenames = <<>>
    /\ training_labels = << <<>>, <<>> >>
    /\ LocalsUnset
    /\ log = <<>>
    /\ nreads = 0
    /\ result = NoResult
    /\ rd = RdIdle

experiment_folder == experiment_folders[i]

\* an exception propagates out of load_licking_data
Raise(e) ==
    /\ pc' = "raised"
    /\ exc' = e

\* `break` in the place of `continue`: the loop of line 84 is left
SkipBreaks(reason) ==
    /\ log' = Append(log, [exp |-> experiment_folder, outcome |-> reason])
    /\ i' = Len(experiment_folders) + 1
    /\ pc' = "experiment"
    /\ ResetLocals
    /\ UNCHANGED <<args, exc, experiment_folders, training, nreads, rd, result>>

\* `continue` of the loop of line 84 after printing the reason
Skip(reason) ==
    /\ log' = Append(log, [exp |-> experiment_folder, outcome |-> reason])
    /\ i' = i + 1
    /\ pc' = "experiment"
    /\ ResetLocals
    /\ UNCHANGED <<args, exc, experiment_folders, training, nreads, rd, result>>

(***************************************************************************)
(* Dataset assembler: listing the root (lines 70-80).                      *)
(***************************************************************************)
\* line 70: os.listdir of a root path that does not exist
ListRootMissing ==
    /\ pc = "call"
    /\ Raise("FileNotFoundError")
    /\ UNCHANGED <<args, experiment_folders, i, training, index, table,
                   selection, experiment, log, nreads, rd, result>>

\* lines 70-80: the subfolders in the order os.listdir returns them
ListRoot ==
    /\ pc = "call"
    /\ \E listing \in Listings :
           experiment_folders' = listing
    /\ i' = 1
    /\ pc' = "experiment"
    /\ UNCHANGED <<args, exc, training, index, table, selection, experiment,
                   log, nreads, rd, result>>

(***************************************************************************)
(* Experiment aligner: structural checks (lines 84-118).                   *)
(***************************************************************************)
AtExperiment == pc = "experiment" /\ i <= Len(experiment_folders)

\* lines 91-93
SkipNoLabels == AtExperiment /\ Skip("No labels folder found")

\* lines 102-105
SkipNoTongueOrJaw == AtExperiment /\ Skip("Missing tongue or jaw folder")

\* lines 109-111
SkipNoImagesFolder == AtExperiment /\ Skip("No images folder found")

\* lines 113-118: no listed name has an accepted extension
SkipNoImages == AtExperiment /\ Skip("No images found")

(***************************************************************************)
(* Frame indexer (lines 113-147), one listed file at a time.               *)
(***************************************************************************)
\* lines 140-147 with frame_to_name written only for a new frame number: of
\* two files with one frame number the path is the later file's, the name the
\* earlier file's
IndexFileKeepsFirstName(img, png, scene) ==
    LET path == <<experiment_folder, img>>
        name == StripExt(img, png)
        num == StripScene(name, scene)
        n == PyInt(num)
    IN  IF n.exc = "ok"
        THEN /\ frame_to_path' = DictSet(frame_to_path, n.val, path)
             /\ frame_to_name' =
                    IF n.val \in KeySet(frame_to_name) THEN frame_to_name
                    ELSE DictSet(frame_to_name, n.val, name)
        ELSE UNCHANGED <<frame_to_path, frame_to_name>>

\* lines 140-147 with both mappings written only for a new frame number: of
\* two files with one frame number the earlier one stays
IndexFileFirstWins(img, png, scene) ==
    LET path == <<experiment_folder, img>>
        name == StripExt(img, png)
        num == StripScene(name, scene)
        n == PyInt(num)
    IN  IF n.exc = "ok" /\ n.val \notin KeySet(frame_to_path)
        THEN /\ frame_to_path' = DictSet(frame_to_path, n.val, path)
             /\ frame_to_name' = DictSet(frame_to_name, n.val, name)
        ELSE UNCHANGED <<frame_to_path, frame_to_name>>

\* lines 140-147: one turn of the zip loop
IndexFile(img, png, scene) ==
    LET path == <<experiment_folder, img>>
        name == StripExt(img, png)
        num == StripScene(name, scene)
        n == PyInt(num)
    IN  IF n.exc = "ok"
        THEN /\ frame_to_path' = DictSet(frame_to_path, n.val, path)
             /\ frame_to_name' = DictSet(frame_to_name, n.val, name)
        ELSE UNCHANGED <<frame_to_path, frame_to_name>>

\* lines 113-135 and the first turn of the loop of line 140: the first listed
\* image decides how every name is stripped
IndexFirstImage ==
    /\ AtExperiment
    /\ nreads < MaxReads
    /\ \E img \in DirNames :
           LET png == EndsWith(img, PngSuffix)
               scene == StartsWith(StripExt(img, png), SceneToken)
           IN  /\ HasImageExt(img)
               /\ png_suffix' = png
               /\ scene_prefix' = scene
               /\ IndexFile(img, png, scene)
    /\ nreads' = nreads + 1
    /\ pc' = "index"
    /\ UNCHANGED <<args, exc, experiment_folders, i, training, table,
                   selection, experiment, log, rd, result>>

\* a later turn of the loop of line 140
IndexNextImage ==
    /\ pc = "index"
    /\ nreads < MaxReads
    /\ \E img \in DirNames :
           /\ HasImageExt(img)
           /\ IndexFile(img, png_suffix, scene_prefix)
    /\ nreads' = nreads + 1
    /\ UNCHANGED <<args, pc, exc, experiment_folders, i, training, png_suffix,
                   scene_prefix, table, selection, experiment, log, rd, result>>

\* the loop of line 140 ends
IndexDone ==
    /\ pc = "index"
    /\ pc' = "jaw"
    /\ UNCHANGED <<args, exc, experiment_folders, i, training, index, table,
                   selection, experiment, log, nreads, rd, result>>

(***************************************************************************)
(* Coordinate table reader (lines 149-225), one line at a time.            *)
(***************************************************************************)
\* lines 150-153
SkipNoCsv == pc = "jaw" /\ Skip("No CSV file found in jaw folder")

\* lines 158-160: next(file) on a file without any line
OpenCsvNoHeaderLine ==
    /\ pc = "jaw"
    /\ csv_has_header
    /\ Raise("StopIteration")
    /\ UNCHANGED <<args, experiment_folders, i, training, index, table,
                   selection, experiment, log, nreads, rd, result>>

\* lines 155-166: the file is opened and its header line, if any, passed over
OpenCsv ==
    /\ pc = "jaw"
    /\ pc' = "detect"
    /\ jaw_coords' = EmptyDict
    /\ UNCHANGED <<args, exc, experiment_folders, i, training, index,
                   delimiter, selection, experiment, log, nreads, rd, result>>

\* lines 185-225 for one line: the row is stored, discarded, or raises
ReadLine(line, delim) ==
    LET res == ProcessRow(line, delim)
    IN  IF res.kind = "raise"
        THEN /\ Raise(res.exc)
             /\ UNCHANGED jaw_coords
        ELSE /\ jaw_coords' = StoreRow(jaw_coords, res)
             /\ pc' = "rows"
             /\ UNCHANGED exc

\* lines 168-177 on a file with no data line: first_line is ''
DetectNoLine ==
    /\ pc = "detect"
    /\ delimiter' = DetectDelimiter(<<>>, csv_delimiter)
    /\ pc' = "first_image"
    /\ UNCHANGED <<args, exc, experiment_folders, i, training, index,
                   jaw_coords, selection, experiment, log, nreads, rd, result>>

\* lines 168-184 and the first turn of the loop of line 185
DetectAndReadFirstLine ==
    /\ pc = "detect"
    /\ nreads < MaxReads
    /\ \E line \in CsvLines :
           LET delim == DetectDelimiter(Strip(line), csv_delimiter)
           IN  /\ delimiter' = delim
               /\ ReadLine(line, delim)
    /\ nreads' = nreads + 1
    /\ UNCHANGED <<args, experiment_folders, i, training, index, selection,
                   experiment, log, rd, result>>

\* a later turn of the loop of line 185
ReadNextLine ==
    /\ pc = "rows"
    /\ nreads < MaxReads
    /\ \E line \in CsvLines : ReadLine(line, delimiter)
    /\ nreads' = nreads + 1
    /\ UNCHANGED <<args, experiment_folders, i, training, index, delimiter,
                   selection, experiment, log, rd, result>>

\* the loop of line 185 ends and the file is closed
EndOfTable ==
    /\ pc = "rows"
    /\ pc' = "first_image"
    /\ UNCHANGED <<args, exc, experiment_folders, i, training, index, table,
                   selection, experiment, log, nreads, rd, result>>

(***************************************************************************)
(* Experiment aligner: frame selection (lines 227-258).                    *)
(***************************************************************************)
\* lines 228-230
SkipNoFrameNumbers ==
    /\ pc = "first_image"
    /\ frame_to_path = <<>>
    /\ Skip("No valid frame numbers found")

\* lines 232-236: cv2.imread of the first key's file returns None
SkipFirstImageUnreadable ==
    /\ pc = "first_image"
    /\ frame_to_path /= <<>>
    /\ Skip("Could not read first image")

\* lines 232-239
ReadFirstImage ==
    /\ pc = "first_image"
    /\ frame_to_path /= <<>>
    /\ first_frame' = Keys(frame_to_path)[1]
    /\ \E shape \in DecodedShapes :
           actual_original_resolution' =
               ActualResolution(original_resolution, shape)
    /\ pc' = "select"
    /\ UNCHANGED <<args, exc, experiment_folders, i, training, index, table,
                   valid_frames, k, experiment, log, nreads, rd, result>>

\* lines 241-251
SkipNoValidFrames ==
    /\ pc = "select"
    /\ ValidFrames(AllFrames(frame_to_path), load_all_images, jaw_coords) = <<>>
    /\ Skip("No valid frames found")

\* lines 241-258
SelectFrames ==
    /\ pc = "select"
    /\ valid_frames' =
           ValidFrames(AllFrames(frame_to_path), load_all_images, jaw_coords)
    /\ valid_frames' /= <<>>
    /\ k' = 1
    /\ experiment_images' = <<>>
    /\ experiment_image_filenames' = <<>>
    /\ experiment_labels' = << <<>>, <<>> >>
    /\ pc' = "frames"
    /\ UNCHANGED <<args, exc, experiment_folders, i, training, index, table,
                   first_frame, actual_original_resolution, log, nreads, rd, result>>

(***************************************************************************)
(* Experiment aligner: the frame loop (lines 260-307).                     *)
(***************************************************************************)
AtFrame == pc = "frames" /\ k <= Len(valid_frames)

frame_num == valid_frames[k]

image_path == Get(frame_to_path, frame_num)

\* lines 264-267 with the experiment given up at the first image that does
\* not decode
FrameUnreadableSkipsExperiment ==
    /\ pc = "frames" /\ k <= Len(valid_frames)
    /\ Get(frame_to_path, valid_frames[k]) /= Get(frame_to_path, first_frame)
    /\ Skip("Could not read image")

\* lines 264-267: cv2.imread returns None; the file that gave the resolution
\* at line 233 is known to decode
FrameUnreadable ==
    /\ AtFrame
    /\ image_path /= Get(frame_to_path, first_frame)
    /\ k' = k + 1
    /\ UNCHANGED <<args, pc, exc, experiment_folders, i, training, index,
                   table, first_frame, actual_original_resolution,
                   valid_frames, experiment, log, nreads, rd, result>>

\* lines 269-275 with the file name appended before the try block: a resize
\* that raises leaves a file name without an image
FrameResizeFailsAfterAppend ==
    /\ pc = "frames" /\ k <= Len(valid_frames)
    /\ experiment_image_filenames' =
           Append(experiment_image_filenames,
                  Get(frame_to_path, valid_frames[k]))
    /\ k' = k + 1
    /\ UNCHANGED <<args, pc, exc, experiment_folders, i, training, index,
                   table, first_frame, actual_original_resolution,
                   valid_frames, experiment_images, experiment_labels, log,
                   nreads, rd, result>>

\* lines 269-275: cv2.resize raises
FrameResizeFails ==
    /\ AtFrame
    /\ k' = k + 1
    /\ UNCHANGED <<args, pc, exc, experiment_folders, i, training, index,
                   table, first_frame, actual_original_resolution,
                   valid_frames, experiment, log, nreads, rd, result>>

\* lines 261-307 with the sample appended to the buffers of line 78-80 as
\* well, in the turn of the frame loop that builds it
FrameEmittedIntoBuffers ==
    /\ pc = "frames" /\ k <= Len(valid_frames)
    /\ experiment_images' =
           Append(experiment_images,
                  ResizedImage(Get(frame_to_path, valid_frames[k]), valid_frames[k], target_resolution))
    /\ experiment_image_filenames' = Append(experiment_image_filenames, Get(frame_to_path, valid_frames[k]))
    /\ \E tongue_file \in {"absent", "undecodable", "present"} :
           experiment_labels' =
               << Append(experiment_labels[1],
                         TongueLabel(experiment_folder,
                                     Get(frame_to_name, valid_frames[k]), valid_frames[k],
                                     tongue_file, target_resolution)),
                  Append(experiment_labels[2],
                         JawLabel(experiment_folder, valid_frames[k], jaw_coords,
                                  actual_original_resolution,
                                  target_resolution)) >>
    /\ training_images' =
           Append(training_images,
                  ResizedImage(Get(frame_to_path, valid_frames[k]),
                               valid_frames[k], target_resolution))
    /\ training_image_filenames' =
           Append(training_image_filenames, Get(frame_to_path, valid_frames[k]))
    /\ training_labels' =
           << Append(training_labels[1], experiment_labels'[1][Len(experiment_labels'[1])]),
              Append(training_labels[2], experiment_labels'[2][Len(experiment_labels'[2])]) >>
    /\ k' = k + 1
    /\ UNCHANGED <<args, pc, exc, experiment_folders, i, index,
                   table, first_frame, actual_original_resolution,
                   valid_frames, log, nreads, rd, result>>

\* lines 261-307 for a frame whose image decodes and resizes
FrameEmitted ==
    /\ AtFrame
    /\ experiment_images' =
           Append(experiment_images,
                  ResizedImage(image_path, frame_num, target_resolution))
    /\ experiment_image_filenames' = Append(experiment_image_filenames, image_path)
    /\ \E tongue_file \in {"absent", "undecodable", "present"} :
           experiment_labels' =
               << Append(experiment_labels[1],
                         TongueLabel(experiment_folder,
                                     Get(frame_to_name, frame_num), frame_num,
                                     tongue_file, target_resolution)),
                  Append(experiment_labels[2],
                         JawLabel(experiment_folder, frame_num, jaw_coords,
                                  actual_original_resolution,
                                  target_resolution)) >>
    /\ k' = k + 1
    /\ UNCHANGED <<args, pc, exc, experiment_folders, i, training, index,
                   table, first_frame, actual_original_resolution,
                   valid_frames, log, nreads, rd, result>>

(***************************************************************************)
(* Dataset assembler: accumulation and return (lines 309-323).             *)
(***************************************************************************)
\* lines 309-313 with the experiment's samples put in front of the buffers
ExtendTrainingInFront ==
    /\ pc = "frames"
    /\ k > Len(valid_frames)
    /\ training_images' = experiment_images \o training_images
    /\ training_image_filenames' =
           experiment_image_filenames \o training_image_filenames
    /\ training_labels' = << experiment_labels[1] \o training_labels[1],
                             experiment_labels[2] \o training_labels[2] >>
    /\ log' = Append(log, [exp |-> experiment_folder, outcome |-> "loaded"])
    /\ i' = i + 1
    /\ pc' = "experiment"
    /\ ResetLocals
    /\ UNCHANGED <<args, exc, experiment_folders, nreads, rd, result>>

\* lines 309-313, then the next turn of the loop of line 84
ExtendTraining ==
    /\ pc = "frames"
    /\ k > Len(valid_frames)
    /\ training_images' = training_images \o experiment_images
    /\ training_image_filenames' =
           training_image_filenames \o experiment_image_filenames
    /\ training_labels' = << training_labels[1] \o experiment_labels[1],
                             training_labels[2] \o experiment_labels[2] >>
    /\ log' = Append(log, [exp |-> experiment_folder, outcome |-> "loaded"])
    /\ i' = i + 1
    /\ pc' = "experiment"
    /\ ResetLocals
    /\ UNCHANGED <<args, exc, experiment_folders, nreads, rd, result>>

\* np.array([])
EmptyArray == [dtype |-> "float64", shape |-> <<0>>]

\* the shapes of the arrays of a list
Shapes(arrays) == {arrays[j].shape : j \in 1..Len(arrays)}

\* line 319 without its guard: np.stack of an empty list raises ValueError
StackImagesUnguarded(images) ==
    IF images /= <<>>
    THEN { [exc |-> "ok",
            val |-> [dtype |-> "uint8",
                     shape |-> <<Len(images)>> \o images[1].shape]] }
    ELSE { [exc |-> "ValueError", val |-> EmptyArray] }

\* line 319: the outcomes of stacking the images (all of one shape, line 270)
StackImages(images) ==
    IF images /= <<>>
    THEN { [exc |-> "ok",
            val |-> [dtype |-> "uint8",
                     shape |-> <<Len(images)>> \o images[1].shape]] }
    ELSE { [exc |-> "ok", val |-> EmptyArray] }

\* line 320: the outcomes of np.moveaxis(np.stack(training_labels), [0], [-1]).
\* Each of the two lists is made an array, then the two are stacked: with one
\* shape throughout the result is (n, rows, columns, 2); with lists of
\* different shapes np.stack raises ValueError; a list whose own arrays differ
\* in shape raises ValueError or, in a numpy that still builds arrays of
\* objects from ragged lists, becomes an array of n objects
StackLabels(labels) ==
    IF labels[1] = <<>> THEN { [exc |-> "ok", val |-> EmptyArray] }
    ELSE IF Cardinality(Shapes(labels[1]) \cup Shapes(labels[2])) = 1
    THEN { [exc |-> "ok",
            val |-> [dtype |-> "uint8",
                     shape |-> <<Len(labels[1])>> \o labels[1][1].shape
                                   \o <<2>>]] }
    ELSE IF Cardinality(Shapes(labels[1])) > 1 /\ Cardinality(Shapes(labels[2])) > 1
    THEN { [exc |-> "ValueError", val |-> EmptyArray],
           [exc |-> "ok",
            val |-> [dtype |-> "object", shape |-> <<Len(labels[1]), 2>>]] }
    ELSE { [exc |-> "ValueError", val |-> EmptyArray] }

\* lines 315-323: the loop of line 84 is over and the function returns, the
\* lists themselves or the arrays stacked from them
Return ==
    /\ pc = "experiment"
    /\ i > Len(experiment_folders)
    /\ \E return_numpy \in BOOLEAN :
           IF return_numpy
           THEN \E im \in StackImages(training_images),
                   la \in StackLabels(training_labels) :
                    /\ im.exc = "ok"
                    /\ la.exc = "ok"
                    /\ result' = [kind |-> "numpy", images |-> im.val,
                                  filenames |-> training_image_filenames,
                                  labels |-> la.val]
           ELSE result' = [kind |-> "lists", images |-> training_images,
                           filenames |-> training_image_filenames,
                           labels |-> training_labels]
    /\ pc' = "returned"
    /\ UNCHANGED <<args, exc, experiment_folders, i, training, index, table,
                   selection, experiment, log, nreads, rd>>

\* lines 317-320 with return_numpy: np.stack raises
ReturnStackRaises ==
    /\ pc = "experiment"
    /\ i > Len(experiment_folders)
    /\ \E im \in StackImages(training_images),
          la \in StackLabels(training_labels) :
           /\ im.exc /= "ok" \/ la.exc /= "ok"
           /\ Raise(IF im.exc /= "ok" THEN im.exc ELSE la.exc)
    /\ UNCHANGED <<args, experiment_folders, i, training, index, table,
                   selection, experiment, log, nreads, rd, result>>

Next ==
    \/ ListRootMissing
    \/ ListRoot
    \/ SkipNoLabels
    \/ SkipNoTongueOrJaw
    \/ SkipNoImagesFolder
    \/ SkipNoImages
    \/ IndexFirstImage
    \/ IndexNextImage
    \/ IndexDone
    \/ SkipNoCsv
    \/ OpenCsvNoHeaderLine
    \/ OpenCsv
    \/ DetectNoLine
    \/ DetectAndReadFirstLine
    \/ ReadNextLine
    \/ EndOfTable
    \/ SkipNoFrameNumbers
    \/ SkipFirstImageUnreadable
    \/ ReadFirstImage
    \/ SkipNoValidFrames
    \/ SelectFrames
    \/ FrameUnreadable
    \/ FrameResizeFails
    \/ FrameEmitted
    \/ ExtendTraining
    \/ Return
    \/ ReturnStackRaises

Spec == Init /\ [][Next]_vars

(***************************************************************************)
(* The coordinate table reader alone (lines 156-225), reading three files  *)
(* that hold the same rows, one written with each separator.  rd holds the *)
(* fields of the row read last and, per file, the detected delimiter,      *)
(* jaw_coords before and after that row, and the exception raised.         *)
(***************************************************************************)
\* fields a CSV row may hold: frame, x, y
FrameFields == { <<"1">>, <<"2">>, <<"x">>, <<>> }

XFields == { <<"5">>, <<"2", ".", "7">>, <<"n", "a", "n">>, <<"N", "a", "n">>,
             <<"i", "n", "f">>, <<>> }

YFields == { <<"7">>, <<"N", "o", "n", "e">> }

LogicalRows == {<<f, x, y>> : f \in FrameFields, x \in XFields, y \in YFields}

\* csv_delimiter arguments
Delimiters == {",", " ", TAB, ";"}

pipeline == <<target_resolution, load_all_images, pc, exc, experiment_folders,
              i, training, index, table, selection, experiment, log, nreads,
              result>>

InitCsv ==
    /\ target_resolution \in Resolutions
    /\ load_all_images = TRUE
    /\ csv_has_header \in BOOLEAN
    /\ csv_delimiter \in Delimiters
    /\ pc = "idle"
    /\ exc = "none"
    /\ experiment_folders = <<>>
    /\ i = 0
    /\ training_images = <<>>
    /\ training_image_filenames = <<>>
    /\ training_labels = << <<>>, <<>> >>
    /\ LocalsUnset
    /\ log = <<>>
    /\ nreads = 0
    /\ result = NoResult
    /\ rd = [pc |-> "open", n |-> 0, in_row |-> FALSE, row |-> <<>>,
             delim |-> [s \in Seps |-> ""],
             before |-> [s \in Seps |-> EmptyDict],
             coords |-> [s \in Seps |-> EmptyDict],
             exc |-> [s \in Seps |-> "none"]]

\* lines 158-160: next(file) on a file without any line
RdOpenNoHeaderLine ==
    /\ rd.pc = "open"
    /\ csv_has_header
    /\ rd' = [rd EXCEPT !.pc = "raised",
                        !.exc = [s \in Seps |-> "StopIteration"]]
    /\ UNCHANGED <<pipeline, csv_has_header, csv_delimiter>>

\* lines 155-166
RdOpen ==
    /\ rd.pc = "open"
    /\ rd' = [rd EXCEPT !.pc = "detect"]
    /\ UNCHANGED <<pipeline, csv_has_header, csv_delimiter>>

\* lines 168-177 on files with no data line
RdDetectNoLine ==
    /\ rd.pc = "detect"
    /\ rd' = [rd EXCEPT !.pc = "returned",
                        !.delim = [s \in Seps |->
                                      DetectDelimiter(<<>>, csv_delimiter)]]
    /\ UNCHANGED <<pipeline, csv_has_header, csv_delimiter>>

\* lines 185-225 for the row r in each of the three files
RdRow(r, delim) ==
    LET res == [s \in Seps |-> ProcessRow(Join(r, s), delim[s])]
        raised == \E s \in Seps : res[s].kind = "raise"
    IN  rd' = [rd EXCEPT
                 !.pc = IF raised THEN "raised" ELSE "rows",
                 !.in_row = raised,
                 !.n = rd.n + 1,
                 !.row = r,
                 !.delim = delim,
                 !.before = rd.coords,
                 !.coords = [s \in Seps |-> StoreRow(rd.coords[s], res[s])],
                 !.exc = [s \in Seps |-> res[s].exc]]

\* lines 168-184 and the first turn of the loop of line 185
RdDetectAndReadFirstRow ==
    /\ rd.pc = "detect"
    /\ rd.n < MaxTableRows
    /\ \E r \in LogicalRows :
           RdRow(r, [s \in Seps |->
                        DetectDelimiter(Strip(Join(r, s)), csv_delimiter)])
    /\ UNCHANGED <<pipeline, csv_has_header, csv_delimiter>>

\* a later turn of the loop of line 185
RdReadNextRow ==
    /\ rd.pc = "rows"
    /\ rd.n < MaxTableRows
    /\ \E r \in LogicalRows : RdRow(r, rd.delim)
    /\ UNCHANGED <<pipeline, csv_has_header, csv_delimiter>>

\* the loop of line 185 ends
RdEndOfTable ==
    /\ rd.pc = "rows"
    /\ rd' = [rd EXCEPT !.pc = "returned"]
    /\ UNCHANGED <<pipeline, csv_has_header, csv_delimiter>>

NextCsv ==
    \/ RdOpenNoHeaderLine
    \/ RdOpen
    \/ RdDetectNoLine
    \/ RdDetectAndReadFirstRow
    \/ RdReadNextRow
    \/ RdEndOfTable

SpecCsv == InitCsv /\ [][NextCsv]_vars

(***************************************************************************)
(* The frame indexer alone (lines 113-147 and 242) over the listing of one *)
(* images folder.  rd holds the names listed so far (those line 114 keeps) *)
(* and, once the listing is over, all_frames.                              *)
(***************************************************************************)
\* image names the folder may hold: plain and zero-padded numbers, the three
\* accepted extensions, an upper-case extension, the scene prefix, a stem
\* that is no number
IndexNames ==
    { <<"1", ".", "p", "n", "g">>,
      <<"0", "1", ".", "p", "n", "g">>,
      <<"2", ".", "j", "p", "g">>,
      <<"3", ".", "j", "p", "e", "g">>,
      <<"2", ".", "P", "N", "G">>,
      <<"s", "c", "e", "n", "e", "1", ".", "p", "n", "g">>,
      <<"x", ".", "p", "n", "g">> }

not_index == <<args, pc, exc, experiment_folders, i, training, table,
               selection, experiment, log, nreads, result>>

InitIndex ==
    /\ target_resolution \in Resolutions
    /\ load_all_images = TRUE
    /\ csv_has_header = TRUE
    /\ csv_delimiter = " "
    /\ pc = "idle"
    /\ exc = "none"
    /\ experiment_folders = <<1>>
    /\ i = 1
    /\ training_images = <<>>
    /\ training_image_filenames = <<>>
    /\ training_labels = << <<>>, <<>> >>
    /\ LocalsUnset
    /\ log = <<>>
    /\ nreads = 0
    /\ result = NoResult
    /\ rd = [pc |-> "list", names |-> <<>>, all_frames |-> <<>>]

\* lines 113-135 and the first turn of the loop of line 140
IxFirstImage ==
    /\ rd.pc = "list"
    /\ \E img \in IndexNames :
           LET png == EndsWith(img, PngSuffix)
               scene == StartsWith(StripExt(img, png), SceneToken)
           IN  /\ HasImageExt(img)
               /\ png_suffix' = png
               /\ scene_prefix' = scene
               /\ IndexFile(img, png, scene)
               /\ rd' = [rd EXCEPT !.pc = "index", !.names = <<img>>]
    /\ UNCHANGED not_index

\* a later turn of the loop of line 140
IxNextImage ==
    /\ rd.pc = "index"
    /\ Len(rd.names) < MaxListing
    /\ \E img \in IndexNames :
           /\ HasImageExt(img)
           /\ IndexFile(img, png_suffix, scene_prefix)
           /\ rd' = [rd EXCEPT !.names = Append(rd.names, img)]
    /\ UNCHANGED <<not_index, png_suffix, scene_prefix>>

\* the loop of line 140 ends; line 242
IxDone ==
    /\ rd.pc = "index"
    /\ rd' = [rd EXCEPT !.pc = "done", !.all_frames = AllFrames(frame_to_path)]
    /\ UNCHANGED <<not_index, index>>

NextIndex ==
    \/ IxFirstImage
    \/ IxNextImage
    \/ IxDone

SpecIndex == InitIndex /\ [][NextIndex]_vars

(***************************************************************************)
(* Two runs over the same experiment that are given different              *)
(* original_resolution arguments (lines 232-238 and 294-305).  rd holds    *)
(* the decoded shape of the first image and, per run, the argument,        *)
(* actual_original_resolution and the jaw heatmaps; jaw_coords is the      *)
(* table both runs read.  The images and the tongue masks are built from   *)
(* the files and target_resolution alone (lines 270 and 282-292).          *)
(***************************************************************************)
\* original_resolution arguments and shapes of decoded images
HintResolutions == { <<480, 640>>, <<4, 6>>, <<6, 4>> }

\* what the table holds for a frame: no row, an occluded row, a coordinate
NoRow == <<"no row">>

HintRecords == { NoRow, None, <<5, 7>>, <<2, 3>> }

not_hint == <<args, pc, exc, experiment_folders, i, training, index,
              delimiter, selection, experiment, log, nreads, result>>

InitHint ==
    /\ target_resolution \in Resolutions
    /\ load_all_images = TRUE
    /\ csv_has_header = TRUE
    /\ csv_delimiter = " "
    /\ pc = "idle"
    /\ exc = "none"
    /\ experiment_folders = <<1>>
    /\ i = 1
    /\ training_images = <<>>
    /\ training_image_filenames = <<>>
    /\ training_labels = << <<>>, <<>> >>
    /\ LocalsUnset
    /\ log = <<>>
    /\ nreads = 0
    /\ result = NoResult
    /\ \E a, b \in HintResolutions :
           /\ a /= b
           /\ rd = [pc |-> "first_image", configured |-> <<a, b>>,
                    decoded |-> <<>>, actual |-> << <<>>, <<>> >>, k |-> 1,
                    heatmaps |-> << <<>>, <<>> >>]

\* lines 232-239 in both runs
HintReadFirstImage ==
    /\ rd.pc = "first_image"
    /\ \E shape \in HintResolutions :
           rd' = [rd EXCEPT
                    !.pc = "frames",
                    !.decoded = shape,
                    !.actual = [run \in {1, 2} |->
                                   ActualResolution(rd.configured[run], shape)]]
    /\ UNCHANGED <<not_hint, jaw_coords>>

\* lines 294-305 in both runs for frame k, with what the table holds for it
HintFrame ==
    /\ rd.pc = "frames"
    /\ rd.k <= MaxHintFrames
    /\ \E rec \in HintRecords :
           LET coords == IF rec = NoRow THEN jaw_coords
                         ELSE Put(jaw_coords, rd.k, rec)
           IN  /\ jaw_coords' = coords
               /\ rd' = [rd EXCEPT
                            !.k = rd.k + 1,
                            !.heatmaps = [run \in {1, 2} |->
                                Append(rd.heatmaps[run],
                                       JawLabel(experiment_folder, rd.k, coords,
                                                rd.actual[run],
                                                target_resolution))]]
    /\ UNCHANGED not_hint

\* the frame loop ends in both runs
HintDone ==
    /\ rd.pc = "frames"
    /\ rd' = [rd EXCEPT !.pc = "done"]
    /\ UNCHANGED <<not_hint, jaw_coords>>

NextHint ==
    \/ HintReadFirstImage
    \/ HintFrame
    \/ HintDone

SpecHint == InitHint /\ [][NextHint]_vars

(***************************************************************************)
(* replace_frame_numbers_with_image_names (src/utils.py, lines 203-313).   *)
(* rd holds basenames_sorted, the header and the rows read, the file at    *)
(* the output path and the dict returned.                                  *)
(***************************************************************************)
\* the characters of the model in the order of their code points
CharOrder == <<"-", ".">> \o DigitChars \o UpperChars \o LowerChars

CharCode(c) == CHOOSE j \in 1..Len(CharOrder) : CharOrder[j] = c

\* a < b on str
RECURSIVE StrLess(_, _)
StrLess(a, b) ==
    IF b = <<>> THEN FALSE
    ELSE IF a = <<>> THEN TRUE
    ELSE IF Head(a) = Head(b) THEN StrLess(Tail(a), Tail(b))
    ELSE CharCode(Head(a)) < CharCode(Head(b))

\* lines 243-247: sort_key(a) < sort_key(b), the key being (0, int(s)) or,
\* when int(s) raises, (1, s)
SortKeyLess(a, b) ==
    LET ka == PyInt(a)
        kb == PyInt(b)
    IN  IF ka.exc = "ok" /\ kb.exc = "ok" THEN ka.val < kb.val
        ELSE IF ka.exc = "ok" THEN TRUE
        ELSE IF kb.exc = "ok" THEN FALSE
        ELSE StrLess(a, b)

\* x put behind the elements of the sorted list that are not greater
RECURSIVE InsertByKey(_, _)
InsertByKey(sorted, x) ==
    IF sorted = <<>> THEN <<x>>
    ELSE IF SortKeyLess(x, Head(sorted)) THEN <<x>> \o sorted
    ELSE <<Head(sorted)>> \o InsertByKey(Tail(sorted), x)

\* line 249: sorted(basenames, key=sort_key), a stable sort
RECURSIVE SortBasenames(_)
SortBasenames(basenames) ==
    IF basenames = <<>> THEN <<>>
    ELSE InsertByKey(SortBasenames(SubSeq(basenames, 1, Len(basenames) - 1)),
                     basenames[Len(basenames)])

\* seq[idx] on a list: an index below zero counts from the end
PyIndex(seq, idx) ==
    IF 0 <= idx /\ idx < Len(seq) THEN [exc |-> "ok", val |-> seq[idx + 1]]
    ELSE IF -Len(seq) <= idx /\ idx < 0
    THEN [exc |-> "ok", val |-> seq[Len(seq) + idx + 1]]
    ELSE [exc |-> "IndexError", val |-> <<>>]

\* line 272 raises ValueError: a frame value that is not blank and no integer
ParseFails(rows) ==
    \E j \in 1..Len(rows) :
        Strip(rows[j][1]) /= <<>> /\ PyInt(rows[j][1]).exc /= "ok"

\* lines 272-273: max_frame_index, None (<<>>) or <<the maximum>>
MaxFrameIndex(rows) ==
    LET frame_indices == {PyInt(rows[j][1]).val :
                             j \in {m \in 1..Len(rows) : Strip(rows[m][1]) /= <<>>}}
    IN  IF frame_indices = {} THEN <<>>
        ELSE <<CHOOSE x \in frame_indices : \A y \in frame_indices : y <= x>>

\* line 279
NotEnoughImages(rows, num_images) ==
    MaxFrameIndex(rows) /= <<>> /\ MaxFrameIndex(rows)[1] >= num_images

\* lines 287-296 for one row
NewRow(row, sorted) ==
    LET frame_index == PyInt(row[1])
        new_frame == PyIndex(sorted, frame_index.val)
        padded == row \o << <<>>, <<>> >>
    IN  IF frame_index.exc /= "ok" THEN [exc |-> "ValueError", val |-> <<>>]
        ELSE IF new_frame.exc /= "ok" THEN [exc |-> "IndexError", val |-> <<>>]
        ELSE [exc |-> "ok", val |-> <<new_frame.val, padded[2], padded[3]>>]

\* lines 285-296
NewRows(rows, sorted) == [j \in 1..Len(rows) |-> NewRow(rows[j], sorted)]

\* files the images folder may hold
ReplaceFiles ==
    { <<"2", ".", "p", "n", "g">>, <<"1", "0", ".", "j", "p", "g">>,
      <<"a", ".", "p", "n", "g">>, <<"B", ".", "p", "n", "g">> }

\* what os.listdir may return for a folder that holds a file
ReplaceListings == UNION {Orders(S) : S \in SUBSET ReplaceFiles \ {{}}}

\* frame values of a data row
ReplaceFrames ==
    { <<"0">>, <<"1">>, <<"4">>, <<"-", "1">>, <<"-", "5">>, <<"x">>, <<>> }

\* rows csv.reader may give: three fields, one field only, a blank line
ReplaceRows ==
    {<<f, <<"5">>, <<"7">> >> : f \in ReplaceFrames} \cup { << <<"0">> >>, <<>> }

ReplaceHeader == << <<"f", "r", "a", "m", "e">>, <<"x">>, <<"y">> >>

\* the file at the output path before the call
OldFile == [kind |-> "old", header |-> <<>>, rows |-> <<>>]

\* the dict returned
Ret(rows, images_found, written, output_path, error, max_frame_index) ==
    [rows |-> rows, images_found |-> images_found, written |-> written,
     output_path |-> output_path, error |-> error,
     max_frame_index |-> max_frame_index]

not_replace == <<args, pc, exc, experiment_folders, i, training, index, table,
                 selection, experiment, log, nreads, result>>

InitReplace ==
    /\ target_resolution \in Resolutions
    /\ load_all_images = TRUE
    /\ csv_has_header = TRUE
    /\ csv_delimiter = " "
    /\ pc = "idle"
    /\ exc = "none"
    /\ experiment_folders = <<>>
    /\ i = 0
    /\ training_images = <<>>
    /\ training_image_filenames = <<>>
    /\ training_labels = << <<>>, <<>> >>
    /\ LocalsUnset
    /\ log = <<>>
    /\ nreads = 0
    /\ result = NoResult
    /\ rd = [pc |-> "call", basenames_sorted |-> <<>>, header |-> <<>>,
             rows |-> <<>>, file |-> OldFile,
             ret |-> Ret(0, 0, FALSE, "None", "not returned", <<>>)]

RpReturn(ret) ==
    /\ rd' = [rd EXCEPT !.pc = "returned", !.ret = ret]
    /\ UNCHANGED not_replace

\* lines 224-226
RpNoCsvPath ==
    /\ rd.pc = "call"
    /\ RpReturn(Ret(0, 0, FALSE, "None", "jaw_csv_path does not exist", <<>>))

\* lines 228-231
RpNoImagesDir ==
    /\ rd.pc = "call"
    /\ RpReturn(Ret(0, 0, FALSE, "None",
                    "images_folder_path does not exist or is not a directory",
                    <<>>))

\* lines 234-237
RpNoFiles ==
    /\ rd.pc = "call"
    /\ RpReturn(Ret(0, 0, FALSE, "None", "No files found in images folder", <<>>))

\* lines 234-249
RpListImages ==
    /\ rd.pc = "call"
    /\ \E all_files \in ReplaceListings :
           LET basenames == [j \in 1..Len(all_files) |-> SplitExtRoot(all_files[j])]
           IN  rd' = [rd EXCEPT !.pc = "open",
                                !.basenames_sorted = SortBasenames(basenames)]
    /\ UNCHANGED not_replace

\* lines 253-259: the CSV file has no line
RpEmptyCsv ==
    /\ rd.pc = "open"
    /\ RpReturn(Ret(0, Len(rd.basenames_sorted), FALSE, "None", "Empty CSV", <<>>))

\* line 256
RpReadHeader ==
    /\ rd.pc = "open"
    /\ rd' = [rd EXCEPT !.pc = "rows", !.header = ReplaceHeader]
    /\ UNCHANGED not_replace

\* lines 261-264: one turn of the loop, an empty row being passed over
RpReadRow ==
    /\ rd.pc = "rows"
    /\ Len(rd.rows) < MaxReplaceRows
    /\ \E r \in ReplaceRows :
           rd' = [rd EXCEPT !.rows = IF r = <<>> THEN rd.rows
                                     ELSE Append(rd.rows, r)]
    /\ UNCHANGED not_replace

\* lines 266-276
RpParseFails ==
    /\ rd.pc = "rows"
    /\ ParseFails(rd.rows)
    /\ RpReturn(Ret(Len(rd.rows), Len(rd.basenames_sorted), FALSE, "None",
                    "Could not parse frame numbers as integers", <<>>))

\* lines 279-282
RpNotEnoughImages ==
    /\ rd.pc = "rows"
    /\ ~ParseFails(rd.rows)
    /\ NotEnoughImages(rd.rows, Len(rd.basenames_sorted))
    /\ RpReturn(Ret(Len(rd.rows), Len(rd.basenames_sorted), FALSE, "None",
                    "Not enough images", MaxFrameIndex(rd.rows)))

\* lines 285-296: int(row[0]) or basenames_sorted[frame_index] raises
RpRowFails ==
    /\ rd.pc = "rows"
    /\ ~ParseFails(rd.rows)
    /\ ~NotEnoughImages(rd.rows, Len(rd.basenames_sorted))
    /\ \E j \in 1..Len(rd.rows) :
           NewRow(rd.rows[j], rd.basenames_sorted).exc /= "ok"
    /\ RpReturn(Ret(Len(rd.rows), Len(rd.basenames_sorted), FALSE, "None",
                    "Error processing row", MaxFrameIndex(rd.rows)))

\* every row was replaced
RpRowsReplaced ==
    /\ rd.pc = "rows"
    /\ ~ParseFails(rd.rows)
    /\ ~NotEnoughImages(rd.rows, Len(rd.basenames_sorted))
    /\ \A j \in 1..Len(rd.rows) :
           NewRow(rd.rows[j], rd.basenames_sorted).exc = "ok"

\* lines 298-310
RpWrite ==
    /\ RpRowsReplaced
    /\ rd' = [rd EXCEPT
                 !.pc = "returned",
                 !.file = [kind |-> "written", header |-> rd.header,
                           rows |-> [j \in 1..Len(rd.rows) |->
                                        NewRow(rd.rows[j],
                                               rd.basenames_sorted).val]],
                 !.ret = Ret(Len(rd.rows), Len(rd.basenames_sorted), TRUE,
                             "output_csv_path", "None", MaxFrameIndex(rd.rows))]
    /\ UNCHANGED not_replace

\* lines 303-313: open() or a write raises; the file is as it was (open
\* raised) or holds a part of the output
RpWriteFails ==
    /\ RpRowsReplaced
    /\ \E file \in {rd.file, [kind |-> "partial", header |-> <<>>, rows |-> <<>>]} :
           rd' = [rd EXCEPT
                    !.pc = "returned",
                    !.file = file,
                    !.ret = Ret(Len(rd.rows), Len(rd.basenames_sorted), FALSE,
                                "output_csv_path", "str(e)",
                                MaxFrameIndex(rd.rows))]
    /\ UNCHANGED not_replace

NextReplace ==
    \/ RpNoCsvPath
    \/ RpNoImagesDir
    \/ RpNoFiles
    \/ RpListImages
    \/ RpEmptyCsv
    \/ RpReadHeader
    \/ RpReadRow
    \/ RpParseFails
    \/ RpNotEnoughImages
    \/ RpRowFails
    \/ RpWrite
    \/ RpWriteFails

SpecReplace == InitReplace /\ [][NextReplace]_vars

(***************************************************************************)
(* The dialect probe and the row loop (lines 158-225) over one file given  *)
(* as its lines, a header line included when there is one.  rd holds the   *)
(* file, the number of lines consumed, the delimiter handed to csv.reader, *)
(* the delimiter each row was split with, jaw_coords and the exception.    *)
(***************************************************************************)
MaxDetectLines == 3

\* lines of a jaw CSV file, without their terminator
DetectLines ==
    { <<"1", ",", "5", ",", "7">>,
      <<"1", " ", "5", " ", "7">>,
      <<"1", TAB, "5", TAB, "7">>,
      <<"1", ";", "5", ";", "7">>,
      <<"2", ",", "5", " ", "7">>,
      <<"2", " ", "5", TAB, "7">>,
      <<" ", "1", ";", "5", ";", "7">>,
      <<"2", TAB, "5", TAB, "7", " ">>,
      <<>> }

DetectFiles ==
    UNION { [1..n -> DetectLines] : n \in 0..MaxDetectLines }

InitDetect ==
    /\ target_resolution \in Resolutions
    /\ load_all_images = TRUE
    /\ csv_has_header \in BOOLEAN
    /\ csv_delimiter \in Delimiters
    /\ pc = "idle"
    /\ exc = "none"
    /\ experiment_folders = <<>>
    /\ i = 0
    /\ training_images = <<>>
    /\ training_image_filenames = <<>>
    /\ training_labels = << <<>>, <<>> >>
    /\ LocalsUnset
    /\ log = <<>>
    /\ nreads = 0
    /\ result = NoResult
    /\ \E file \in DetectFiles :
           rd = [pc |-> "open", file |-> file, pos |-> 0, delim |-> "",
                 used |-> <<>>, coords |-> EmptyDict, exc |-> "none"]

\* lines 158-160: next(file) on a file without any line
DtOpenNoHeaderLine ==
    /\ rd.pc = "open"
    /\ csv_has_header
    /\ rd.file = <<>>
    /\ rd' = [rd EXCEPT !.pc = "raised", !.exc = "StopIteration"]
    /\ UNCHANGED <<pipeline, csv_has_header, csv_delimiter>>

\* lines 158-166: the header line, when there is one, is passed over
DtOpen ==
    /\ rd.pc = "open"
    /\ ~(csv_has_header /\ rd.file = <<>>)
    /\ rd' = [rd EXCEPT !.pc = "detect",
                        !.pos = IF csv_has_header THEN 1 ELSE 0]
    /\ UNCHANGED <<pipeline, csv_has_header, csv_delimiter>>

\* lines 169-184: readline().strip() of the line at the file position ('' at
\* the end of the file), the probe, and the file put back after the header
DtDetect ==
    /\ rd.pc = "detect"
    /\ LET first_line == IF rd.pos < Len(rd.file)
                         THEN Strip(rd.file[rd.pos + 1])
                         ELSE <<>>
       IN  rd' = [rd EXCEPT !.pc = "rows",
                            !.delim = DetectDelimiter(first_line, csv_delimiter)]
    /\ UNCHANGED <<pipeline, csv_has_header, csv_delimiter>>

\* lines 185-225: one turn of the row loop
DtReadRow ==
    /\ rd.pc = "rows"
    /\ rd.pos < Len(rd.file)
    /\ LET res == ProcessRow(rd.file[rd.pos + 1], rd.delim)
       IN  rd' = [rd EXCEPT
                    !.pc = IF res.kind = "raise" THEN "raised" ELSE "rows",
                    !.pos = rd.pos + 1,
                    !.used = Append(rd.used, rd.delim),
                    !.coords = StoreRow(rd.coords, res),
                    !.exc = res.exc]
    /\ UNCHANGED <<pipeline, csv_has_header, csv_delimiter>>

\* the loop of line 185 ends
DtEndOfTable ==
    /\ rd.pc = "rows"
    /\ rd.pos = Len(rd.file)
    /\ rd' = [rd EXCEPT !.pc = "returned"]
    /\ UNCHANGED <<pipeline, csv_has_header, csv_delimiter>>

NextDetect ==
    \/ DtOpenNoHeaderLine
    \/ DtOpen
    \/ DtDetect
    \/ DtReadRow
    \/ DtEndOfTable

SpecDetect == InitDetect /\ [][NextDetect]_vars

(***************************************************************************)
(* Properties.                                                             *)
(***************************************************************************)
\* the frame number a listed image name stands for (names without a prefix)
FrameNumberOf(path) ==
    PyInt(StripExt(path[2], EndsWith(path[2], PngSuffix))).val

\* the place of an experiment folder in the listing of line 70
Position(e) ==
    CHOOSE p \in 1..Len(experiment_folders) : experiment_folders[p] = e

\* C1: after every completed frame iteration, at the end of every experiment
\* and in the returned dataset, the lists of images, file names, tongue masks
\* and jaw heatmaps have the same length.
C1_LockStep ==
    /\ Len(experiment_images) = Len(experiment_image_filenames)
    /\ Len(experiment_images) = Len(experiment_labels[1])
    /\ Len(experiment_images) = Len(experiment_labels[2])
    /\ Len(training_images) = Len(training_image_filenames)
    /\ Len(training_images) = Len(training_labels[1])
    /\ Len(training_images) = Len(training_labels[2])

\* the frame loop is over; one of two frames was skipped for a failure and the
\* other was emitted without a mask file and without a coordinate
C1_Witness ==
    /\ pc = "frames"
    /\ k > Len(valid_frames)
    /\ Len(valid_frames) = 2
    /\ Len(experiment_images) = 1
    /\ experiment_labels[1][1].kind = "zeros"
    /\ experiment_labels[2][1].kind = "zeros"

\* C2 for one quadruple of lists: position j of each list comes from the same
\* file of the same experiment and from that file's frame number
SameFrame(images, filenames, masks, heatmaps) ==
    \A j \in 1..Len(images) :
        /\ j <= Len(filenames) /\ j <= Len(masks) /\ j <= Len(heatmaps)
        /\ images[j].src = filenames[j]
        /\ masks[j].exp = filenames[j][1]
        /\ masks[j].stem \o PngSuffix = filenames[j][2]
        /\ masks[j].frame = FrameNumberOf(filenames[j])
        /\ heatmaps[j].exp = filenames[j][1]
        /\ heatmaps[j].frame = FrameNumberOf(filenames[j])
        /\ images[j].frame = FrameNumberOf(filenames[j])

\* C2: a frame is added to all four lists or to none: at every index the
\* image, the file name, the mask and the heatmap derive from the same frame
\* number of the same experiment, also after earlier frames were skipped.
C2_SameFrame ==
    /\ SameFrame(experiment_images, experiment_image_filenames,
                 experiment_labels[1], experiment_labels[2])
    /\ SameFrame(training_images, training_image_filenames,
                 training_labels[1], training_labels[2])

\* the first selected frame was skipped and a later one was emitted
C2_Witness ==
    /\ pc = "frames"
    /\ Len(experiment_images) >= 1
    /\ experiment_images[1].frame /= valid_frames[1]

\* C3 for one triple of lists
TargetShaped(images, masks, heatmaps) ==
    LET width == target_resolution[1]
        height == target_resolution[2]
    IN  /\ \A j \in 1..Len(images) : images[j].shape = <<height, width, 3>>
        /\ \A j \in 1..Len(masks) : masks[j].shape = <<height, width>>
        /\ \A j \in 1..Len(heatmaps) : heatmaps[j].shape = <<height, width>>

\* C3: every emitted image, mask and heatmap has the height x width grid of
\* target_resolution = (width, height), placeholders included.
C3_TargetResolution ==
    /\ TargetShaped(experiment_images, experiment_labels[1],
                    experiment_labels[2])
    /\ TargetShaped(training_images, training_labels[1], training_labels[2])

\* the all-zero uint8 array np.zeros(target_resolution) builds
IsZeroHeatmap(h) ==
    /\ h.kind = "zeros"
    /\ h.dtype = "uint8"
    /\ h.shape = target_resolution

C5_DelimiterRobust ==
    rd.pc /= "idle" =>
        \A s, t \in Seps :
            /\ rd.coords[s] = rd.coords[t]
            /\ rd.exc[s] = rd.exc[t]

\* the probe of the first line found no tab in the tab-written file, and a
\* later row of that file was still read into a coordinate
C5_Witness ==
    /\ rd.pc = "returned"
    /\ rd.delim[TAB] /= TAB
    /\ 1 \in DOMAIN rd.coords[TAB]
    /\ rd.coords[TAB][1] /= None

StructuralReasons ==
    { "No labels folder found", "Missing tongue or jaw folder",
      "No images folder found", "No images found",
      "No CSV file found in jaw folder" }

\* a step that skips an experiment for a structural reason raises nothing,
\* leaves the buffers as they are and goes on to the next listed experiment
C6_SkipStep ==
    (/\ Len(log') = Len(log) + 1
     /\ log'[Len(log')].outcome \in StructuralReasons)
    => /\ training' = training
       /\ exc' = "none"
       /\ pc' = "experiment"
       /\ i' = i + 1
       /\ experiment_folders' = experiment_folders

\* at the return every listed experiment was handled, in listing order, and a
\* skipped one has no sample in the dataset
C6_Returned ==
    pc = "returned" =>
        /\ Len(log) = Len(experiment_folders)
        /\ \A j \in 1..Len(log) :
               /\ log[j].exp = experiment_folders[j]
               /\ log[j].outcome /= "loaded" =>
                      \A m \in 1..Len(training_image_filenames) :
                          training_image_filenames[m][1] /= log[j].exp

\* C6: an experiment without a CSV file (or with another structural defect)
\* is skipped without raising and contributes no sample, and the experiments
\* after it are still processed.
C6_SkipNotAbort == []C6_Returned /\ [][C6_SkipStep]_vars

\* the first experiment had no CSV file and the second one gave a sample
C6_Witness ==
    /\ pc = "returned"
    /\ Len(log) = 2
    /\ log[1].outcome = "No CSV file found in jaw folder"
    /\ log[2].outcome = "loaded"
    /\ Len(training_image_filenames) >= 1

\* C7: within one experiment the samples are in strictly ascending order of
\* frame number (so no frame number twice), whatever the listing order.
C7_FrameAscending ==
    /\ \A j, l \in 1..Len(experiment_image_filenames) :
           j < l => FrameNumberOf(experiment_image_filenames[j])
                        < FrameNumberOf(experiment_image_filenames[l])
    /\ \A j, l \in 1..Len(training_image_filenames) :
           (j < l /\ training_image_filenames[j][1] = training_image_filenames[l][1])
           => FrameNumberOf(training_image_filenames[j])
                  < FrameNumberOf(training_image_filenames[l])

\* frame 2 was listed before frame 1 and both were emitted
C7_Witness ==
    /\ pc = "frames"
    /\ Keys(frame_to_path) = <<2, 1>>
    /\ Len(experiment_image_filenames) = 2

\* C8 as stated: the dataset is in ascending order of experiment name.
C8_NameSortedOrder ==
    \A j, l \in 1..Len(training_image_filenames) :
        j < l => training_image_filenames[j][1] <= training_image_filenames[l][1]

\* C8 as amended: the dataset is the concatenation of the experiments' samples
\* in the order of the directory listing, frame-ascending within each.
C8_ListingOrder ==
    \A j, l \in 1..Len(training_image_filenames) :
        j < l =>
            LET a == training_image_filenames[j]
                b == training_image_filenames[l]
            IN  \/ Position(a[1]) < Position(b[1])
                \/ a[1] = b[1] /\ FrameNumberOf(a) < FrameNumberOf(b)

\* the listing gave folder 2 before folder 1 and both gave a sample
C8_Witness ==
    /\ pc = "returned"
    /\ experiment_folders = <<2, 1>>
    /\ Len(training_image_filenames) = 2
    /\ training_image_filenames[1][1] = 2
    /\ training_image_filenames[2][1] = 1

\* C9: no row content makes an exception leave the reader.
C9_NoRowAbortsRead == ~(rd.pc = "raised" /\ rd.in_row)

\* C10: no exception leaves load_licking_data, a missing root path included.
C10_NoExceptionLeaves == pc /= "raised"

\* C11: a coordinate table without a usable row (a file of zero bytes read
\* with csv_has_header included) gives an empty mapping and raises nothing:
\* the StopIteration of next(file) never leaves the function.
C11_EmptyTableNoRaise == ~(pc = "raised" /\ exc = "StopIteration")

\* the frames the policy of load_all_images selects, as a set
SelectedSet ==
    IF load_all_images THEN KeySet(frame_to_path)
    ELSE {f \in KeySet(frame_to_path) : f \in DOMAIN jaw_coords}

\* in the frame loop the frames are the selected set, each once, and every
\* frame emitted for an occluded row has the all-zero heatmap
C12_Selected ==
    pc = "frames" =>
        /\ valid_frames /= <<>>
        /\ {valid_frames[j] : j \in 1..Len(valid_frames)} = SelectedSet
        /\ Len(valid_frames) = Cardinality(SelectedSet)
        /\ \A j \in 1..Len(experiment_labels[2]) :
               LET h == experiment_labels[2][j]
               IN  (h.frame \in DOMAIN jaw_coords /\ jaw_coords[h.frame] = None)
                   => h.kind = "zeros"

\* the experiment is skipped for its selection exactly when nothing is selected
C12_SelectStep ==
    /\ (/\ Len(log') = Len(log) + 1
        /\ log'[Len(log')].outcome = "No valid frames found")
       => SelectedSet = {}
    /\ (pc = "select" /\ SelectedSet = {})
       => log'[Len(log')].outcome = "No valid frames found"

\* C12: the selected frames are every indexed frame under load_all_images,
\* else the indexed frames with a row in the table, an occluded row counting
\* (kept, emitted with a zero heatmap); an empty selection skips the experiment.
C12_SelectedFrames == []C12_Selected /\ [][C12_SelectStep]_vars

\* annotated-only: of two indexed frames the one without a row was dropped
\* and the one with an occluded row was kept and emitted
C12_Witness ==
    /\ ~load_all_images
    /\ pc = "frames"
    /\ Cardinality(KeySet(frame_to_path)) = 2
    /\ Len(valid_frames) = 1
    /\ jaw_coords[valid_frames[1]] = None
    /\ Len(experiment_labels[2]) = 1

\* C13: a row with an integer frame index whose x or y field, trimmed, is an
\* occlusion marker (the empty marker '' included) leaves that frame recorded
\* as occluded.
C13_SentinelOccludes ==
    (rd.pc = "rows" /\ Len(rd.row) = 3) =>
        LET fr == PyInt(Strip(rd.row[1]))
        IN  (/\ fr.exc = "ok"
             /\ \/ Strip(rd.row[2]) \in occlusion_markers
                \/ Strip(rd.row[3]) \in occlusion_markers)
            => \A s \in Seps :
                   /\ fr.val \in DOMAIN rd.coords[s]
                   /\ rd.coords[s][fr.val] = None

\* the frame number the indexer reads from a listed name
CodeNumber(img) ==
    PyInt(StripScene(StripExt(img, png_suffix), scene_prefix))

\* the place in the listing of the last file read as frame f
LastWriter(f) ==
    CHOOSE j \in 1..Len(rd.names) :
        /\ CodeNumber(rd.names[j]) = [exc |-> "ok", val |-> f]
        /\ \A m \in (j + 1)..Len(rd.names) :
               CodeNumber(rd.names[m]) /= [exc |-> "ok", val |-> f]

\* C14: of the files read as one frame number the one listed last gives both
\* the frame's path and its canonical stem, and the frame number is selected
\* once.
C14_LastWriterWins ==
    rd.pc \in {"index", "done"} =>
        /\ Keys(frame_to_path) = Keys(frame_to_name)
        /\ \A f \in KeySet(frame_to_path) :
               /\ \E j \in 1..Len(rd.names) :
                      CodeNumber(rd.names[j]) = [exc |-> "ok", val |-> f]
               /\ f \in KeySet(frame_to_name)
               /\ Get(frame_to_path, f) =
                      <<experiment_folder, rd.names[LastWriter(f)]>>
               /\ Get(frame_to_name, f) =
                      StripExt(rd.names[LastWriter(f)], png_suffix)
        /\ rd.pc = "done" =>
               \A f \in KeySet(frame_to_path) :
                   Cardinality({j \in 1..Len(rd.all_frames) :
                                    rd.all_frames[j] = f}) = 1

\* '1.png' was listed before '01.png': frame 1 has the path and the stem of
\* '01.png' and is selected once
C14_Witness ==
    /\ rd.pc = "done"
    /\ rd.names = << <<"1", ".", "p", "n", "g">>, <<"0", "1", ".", "p", "n", "g">> >>
    /\ Get(frame_to_path, 1) = <<1, <<"0", "1", ".", "p", "n", "g">> >>
    /\ Get(frame_to_name, 1) = <<"0", "1">>
    /\ rd.all_frames = <<1>>

\* a turn of the frame loop either emits the frame at position k or, on a
\* failure, appends nothing; either way the loop goes on to position k + 1 of
\* the same selection, and it is left only past the last frame, by the
\* experiment's samples going to the buffers
C15_FrameStep ==
    /\ (pc = "frames" /\ k <= Len(valid_frames)) =>
           /\ pc' = "frames"
           /\ k' = k + 1
           /\ valid_frames' = valid_frames
           /\ training' = training
           /\ log' = log
           /\ exc' = "none"
           /\ \/ experiment' = experiment
              \/ /\ Len(experiment_images') = Len(experiment_images) + 1
                 /\ SubSeq(experiment_images', 1, Len(experiment_images))
                        = experiment_images
                 /\ experiment_images'[Len(experiment_images')].frame
                        = valid_frames[k]
    /\ (pc = "frames" /\ pc' /= "frames") =>
           /\ k > Len(valid_frames)
           /\ log'[Len(log')] = [exp |-> experiment_folder, outcome |-> "loaded"]
           /\ training_images' = training_images \o experiment_images

\* C15: a frame whose image does not decode or does not resize is skipped
\* alone: nothing is appended for it, the other selected frames are still
\* processed in order, and the experiment is not skipped.
C15_FrameFailureLocal == [][C15_FrameStep]_vars

\* the frame loop is over: the first of two selected frames failed and the
\* second was emitted
C15_Witness ==
    /\ pc = "frames"
    /\ k > Len(valid_frames)
    /\ Len(valid_frames) = 2
    /\ Len(experiment_images) = 1
    /\ experiment_images[1].frame = valid_frames[2]

\* C16: when no experiment gave a sample the function returns empty arrays
\* and an empty list of file names (return_numpy) or empty lists, and stacking
\* raises nothing: np.stack is reached only with at least one sample.
C16_EmptyDataset ==
    /\ (pc = "returned" /\ training_images = <<>>) =>
           /\ result.kind = "numpy" =>
                  /\ result.images = EmptyArray
                  /\ result.filenames = <<>>
                  /\ result.labels = EmptyArray
           /\ result.kind = "lists" =>
                  /\ result.images = <<>>
                  /\ result.filenames = <<>>
                  /\ result.labels = << <<>>, <<>> >>
    /\ (pc = "raised" /\ exc = "ValueError") => training_images /= <<>>

\* both listed experiments were skipped and the function returned arrays
C16_Witness ==
    /\ pc = "returned"
    /\ result.kind = "numpy"
    /\ Len(experiment_folders) = 2
    /\ Len(log) = 2
    /\ training_images = <<>>

ValidIndex(row, num_images) ==
    /\ PyInt(row[1]).exc = "ok"
    /\ 0 <= PyInt(row[1]).val
    /\ PyInt(row[1]).val < num_images

\* C18: the output is written only if every row's frame value is an integer
\* i with 0 <= i < number of images, and then holds the basename at position
\* i; any other call (a negative index included) returns 'written': False
\* with an error and leaves the file at the output path as it was.
C18_ReplaceByIndex ==
    rd.pc = "returned" =>
        /\ rd.ret.written =>
               /\ rd.ret.error = "None"
               /\ rd.file.kind = "written"
               /\ Len(rd.file.rows) = Len(rd.rows)
               /\ \A j \in 1..Len(rd.rows) :
                      /\ ValidIndex(rd.rows[j], Len(rd.basenames_sorted))
                      /\ rd.file.rows[j][1] =
                             rd.basenames_sorted[PyInt(rd.rows[j][1]).val + 1]
        /\ ~rd.ret.written =>
               /\ rd.ret.error /= "None"
               /\ rd.ret.error /= "str(e)" => rd.file = OldFile

\* a listed name without its own accepted extension
OwnStem(img) ==
    LET ext == CHOOSE e \in image_extensions : EndsWith(Lower(img), e)
    IN  SubSeq(img, 1, Len(img) - Len(ext))

\* the integer parse of a stem after its own 'scene' prefix, if it has one
OwnNumber(stem) ==
    PyInt(IF StartsWith(stem, SceneToken) THEN SubSeq(stem, 6, Len(stem))
          ELSE stem)

\* C19: the 'scene' prefix is stripped per file: every listed file whose stem,
\* after its own prefix if it has one, is an integer is indexed under that
\* integer, whichever file was listed first.  (Stated for the files whose
\* extension the indexer stripped.)
C19_ScenePerFile ==
    rd.pc \in {"index", "done"} =>
        \A j \in 1..Len(rd.names) :
            LET stem == StripExt(rd.names[j], png_suffix)
            IN  (stem = OwnStem(rd.names[j]) /\ OwnNumber(stem).exc = "ok")
                => OwnNumber(stem).val \in KeySet(frame_to_path)

\* C20: each file's own accepted extension is stripped: every listed file
\* named '<integer><ext>' is indexed under that integer with an integer stem,
\* whatever the extension of the first listed file.  (Stated for the folders
\* in which the indexer strips no 'scene' prefix.)
C20_OwnExtension ==
    (rd.pc \in {"index", "done"} /\ ~scene_prefix) =>
        \A j \in 1..Len(rd.names) :
            LET n == PyInt(OwnStem(rd.names[j]))
            IN  n.exc = "ok" =>
                    /\ n.val \in KeySet(frame_to_path)
                    /\ n.val \in KeySet(frame_to_name)
                    /\ PyInt(Get(frame_to_name, n.val)) = n

\* the skip 'Could not read first image' is taken for the image whose decoding
\* failed at line 233; that image is the lowest frame of the selected set
C21_FirstImageStep ==
    (/\ Len(log') = Len(log) + 1
     /\ log'[Len(log')].outcome = "Could not read first image")
    => /\ SelectedSet /= {}
       /\ \A f \in SelectedSet : Keys(frame_to_path)[1] <= f
       /\ Keys(frame_to_path)[1] \in SelectedSet

\* C21: the experiment is skipped for its first image exactly when the first
\* frame of the selected set (the lowest frame number the policy keeps) does
\* not decode; an image that is not selected, or not the first selected one,
\* never has the experiment skipped.
C21_FirstSelectable == [][C21_FirstImageStep]_vars

\* the buffers hold samples of experiments that ran their frame loop to its
\* end, and of no other
C22_BuffersOfCompleted ==
    \A m \in 1..Len(training_image_filenames) :
        \E j \in 1..Len(log) :
            /\ log[j].exp = training_image_filenames[m][1]
            /\ log[j].outcome = "loaded"

\* a step that changes a buffer is the one after the last turn of the frame
\* loop, and appends the experiment's four lists as they are
C22_BufferStep ==
    training' /= training =>
        /\ pc = "frames"
        /\ k > Len(valid_frames)
        /\ training_images' = training_images \o experiment_images
        /\ training_image_filenames' =
               training_image_filenames \o experiment_image_filenames
        /\ training_labels' = << training_labels[1] \o experiment_labels[1],
                                 training_labels[2] \o experiment_labels[2] >>
        /\ log' = Append(log, [exp |-> experiment_folder, outcome |-> "loaded"])

\* C22: the buffers change only at the end of an experiment whose frame loop
\* ran to completion, by that experiment's lists being appended whole; during
\* an experiment and at every skip they keep the samples of the experiments
\* completed before.
C22_ExtendOnly == []C22_BuffersOfCompleted /\ [][C22_BufferStep]_vars

\* the second experiment has emitted a frame while the buffers hold the one
\* sample of the first
C22_Witness ==
    /\ pc = "frames"
    /\ i = 2
    /\ Len(experiment_images) = 1
    /\ Len(training_images) = 1
    /\ training_image_filenames[1][1] = experiment_folders[1]

\* C23: no experiment is dropped silently: an experiment that passed every
\* skip check, and so has no skip reason reported, contributes at least one
\* sample to the dataset.
C23_NoSilentDrop ==
    \A j \in 1..Len(log) :
        log[j].outcome = "loaded" =>
            \E m \in 1..Len(training_image_filenames) :
                training_image_filenames[m][1] = log[j].exp

\* the fields of a row that lines 206-221 turn into a record: an integer
\* frame, then either a marker of occlusion or two finite numbers
C25_Frames == { <<"1">>, <<"2">> }

C25_Markers == { <<"n", "a", "n">>, <<"N", "o", "n", "e">> }

C25_Numbers == { <<"5">>, <<"7">>, <<"2", ".", "7">> }

C25_Occluded(r) ==
    /\ r[1] \in C25_Frames
    /\ r[2] /= <<>> /\ r[3] /= <<>>
    /\ r[2] \in C25_Markers \/ r[3] \in C25_Markers

C25_Coordinate(r) ==
    /\ r[1] \in C25_Frames
    /\ r[2] \in C25_Numbers /\ r[3] \in C25_Numbers

C25_FrameOf(r) == IF r[1] = <<"1">> THEN 1 ELSE 2

C25_ValueOf(field) == IF field = <<"5">> THEN 5 ELSE IF field = <<"7">> THEN 7 ELSE 2

\* C25: of several rows with one frame index the mapping holds the record of
\* the last usable one (an occluded row replaces a coordinate and the
\* reverse), a discarded row leaves the mapping as it was, and the mapping
\* holds no record for a frame without a usable row.
C25_LastUsableWins ==
    rd.pc \in {"open", "detect", "rows", "returned", "raised"} =>
        \A s \in Seps :
            /\ rd.n = 0 => rd.coords[s] = EmptyDict
            /\ rd.n > 0 =>
                   LET r == rd.row
                       f == C25_FrameOf(r)
                       usable == C25_Occluded(r) \/ C25_Coordinate(r)
                   IN  /\ ~usable => rd.coords[s] = rd.before[s]
                       /\ usable =>
                              /\ DOMAIN rd.coords[s] = DOMAIN rd.before[s] \cup {f}
                              /\ \A g \in DOMAIN rd.before[s] \ {f} :
                                     rd.coords[s][g] = rd.before[s][g]
                              /\ f \in DOMAIN rd.coords[s]
                       /\ (C25_Occluded(r) /\ f \in DOMAIN rd.coords[s]) =>
                              rd.coords[s][f] = None
                       /\ (~C25_Occluded(r) /\ C25_Coordinate(r)
                               /\ f \in DOMAIN rd.coords[s]) =>
                              rd.coords[s][f] =
                                  <<C25_ValueOf(r[2]), C25_ValueOf(r[3])>>

\* a coordinate of frame 1 was replaced by a later occluded row of frame 1
C25_Witness ==
    /\ rd.pc = "returned"
    /\ rd.n = 2
    /\ 1 \in DOMAIN rd.before[","]
    /\ rd.before[","][1] = <<5, 7>>
    /\ C25_Occluded(rd.row)
    /\ rd.row[1] = <<"1">>
    /\ rd.coords[","][1] = None

\* the first data line of the file: the line after the header when
\* csv_has_header, else the first line; empty when the file has none
C24_FirstDataLine ==
    LET at == IF csv_has_header THEN 2 ELSE 1
    IN  IF at <= Len(rd.file) THEN rd.file[at] ELSE <<>>

C24_Probed == rd.pc \in {"rows", "returned"} \/ (rd.pc = "raised" /\ rd.used /= <<>>)

\* the character c occurs in the line at all
C24_Has(c) == \E j \in 1..Len(C24_FirstDataLine) : C24_FirstDataLine[j] = c

\* the character c occurs in the line between two characters that are not
\* white space, or is itself not white space
C24_HasInside(c) ==
    \E j \in 1..Len(C24_FirstDataLine) :
        /\ C24_FirstDataLine[j] = c
        /\ \E a \in 1..j : C24_FirstDataLine[a] \notin {" ", TAB}
        /\ \E b \in j..Len(C24_FirstDataLine) : C24_FirstDataLine[b] \notin {" ", TAB}

\* C24: the probe looks at the first data line only and picks ',' if the line
\* contains a comma, else ' ' if it contains a space, else a tab if it
\* contains a tab, else csv_delimiter; every row is split with that delimiter.
C24_PriorityOnLine ==
    C24_Probed =>
        /\ C24_Has(",") => rd.delim = ","
        /\ (~C24_Has(",") /\ C24_Has(" ")) => rd.delim = " "
        /\ (~C24_Has(",") /\ ~C24_Has(" ") /\ C24_Has(TAB)) => rd.delim = TAB
        /\ (~C24_Has(",") /\ ~C24_Has(" ") /\ ~C24_Has(TAB)) =>
               rd.delim = csv_delimiter
        /\ \A j \in 1..Len(rd.used) : rd.used[j] = rd.delim

\* C24 amended: the same priority, over the first data line with its leading
\* and trailing white space removed; every row is split with that delimiter.
C24_PriorityOnTrimmedLine ==
    C24_Probed =>
        /\ C24_HasInside(",") => rd.delim = ","
        /\ (~C24_HasInside(",") /\ C24_HasInside(" ")) => rd.delim = " "
        /\ (~C24_HasInside(",") /\ ~C24_HasInside(" ") /\ C24_HasInside(TAB)) =>
               rd.delim = TAB
        /\ (~C24_HasInside(",") /\ ~C24_HasInside(" ") /\ ~C24_HasInside(TAB)) =>
               rd.delim = csv_delimiter
        /\ \A j \in 1..Len(rd.used) : rd.used[j] = rd.delim

\* under a header that holds commas, a first data line with tabs inside and a
\* space at its end was probed as tab separated, and a later row written
\* with commas was split on the tab as well
C24_Witness ==
    /\ rd.pc = "returned"
    /\ csv_has_header
    /\ Len(rd.file) = 3
    /\ Contains(rd.file[1], ",")
    /\ rd.file[2] = <<"2", TAB, "5", TAB, "7", " ">>
    /\ Contains(rd.file[3], ",")
    /\ rd.delim = TAB
    /\ rd.used = <<TAB, TAB>>

====
